---- MODULE Spec2Model ----
(***************************************************************************)
(* The mio-based reactor of src/src/actor.rs: the Registry (token counter  *)
(* and token -> EventInfo map), the Actor that guards it with a Mutex and  *)
(* owns the mio::Poll handle, and the three operations register,           *)
(* deregister and wait_all_events (the spec's poll_and_dispatch).          *)
(*                                                                         *)
(* usize is modelled as 0..MaxValue.        mio::Poll is a black box: it    *)
(* holds a set of (source, token) registrations, each register/deregister  *)
(* call on it either succeeds or fails (a failed call changes nothing),    *)
(* and a poll reports readiness only for sources registered with it.       *)
(***************************************************************************)
EXTENDS Integers, Sequences, FiniteSets, TLC

\* usize::max_value() in the model: usize arithmetic is modulo MaxValue + 1.
MaxValue == 2
\* Largest number of events one poll reports (stands for the capacity 1024).
MaxBatch == 1

Tokens == 0..MaxValue
\* The threads calling into the Actor.
Threads == {"t1", "t2"}
\* The event sources (EventInfo values) that can exist at once; a source that
\* has been dropped can be created again.
EventIds == {"e1", "e2"}
\* Option::None for an EventInfo, and "no thread" for the mutex.
None == "None"
NoThread == "nobody"

\* mio::Ready restricted to the two directions the loop inspects.
Readable == "readable"
Writable == "writable"
Ready == SUBSET {Readable, Writable}
Timeouts == {"none", "zero"}

NoResult == [op |-> "none", ok |-> TRUE, val |-> 0]
Ok(o, x) == [op |-> o, ok |-> TRUE, val |-> x]
Err(o) == [op |-> o, ok |-> FALSE, val |-> 0]

VARIABLES
  next_token,  \* Registry.next_token
  map,         \* Registry.map: function from a set of tokens to EventIds
  locked,      \* the thread holding Actor.registry's mutex, or NoThread
  poisoned,    \* the mutex is poisoned (a holder panicked)
  poll_regs,   \* registrations held by mio::Poll: pairs <<source, token>>
  pc,          \* each thread's position
  ev_info,     \* register's argument while the caller still owns it
  token,       \* register's chosen token / deregister's argument
  os_res,      \* outcome of the call's OS-level register/deregister/poll
  removed,     \* deregister's removed EventInfo (Option)
  timeout,     \* wait_all_events' timeout argument, until the poll consumes it
  events,      \* wait_all_events' mio::Events batch: the events' tokens
  idx,         \* position of the iterator over events
  readiness,   \* the loop body's `readiness` (line 143)
  ret,         \* wait_all_events' counter
  result,      \* what the call returns, once decided
  woken,       \* wakers invoked by the latest iteration of the dispatch loop
  dereg_ok,    \* history: tokens for which deregister has returned true
  gone,        \* history: tokens of dereg_ok not issued by register since
  leaked       \* history: registrations the poll kept when deregister removed
               \* their entry and the OS-level deregister failed

vars == <<next_token, map, locked, poisoned, poll_regs, pc, ev_info, token,
          os_res, removed, timeout, events, idx, readiness, ret, result, woken,
          dereg_ok, gone, leaked>>

registryVars == <<next_token, map>>
lockVars == <<locked, poisoned>>
pollLocals == <<timeout, events, idx, readiness, ret>>
history == <<dereg_ok, gone, leaked>>

----------------------------------------------------------------------------
\* Helpers for the HashMap and the counter.

Range(f) == {f[x] : x \in DOMAIN f}

IsSentinelNever(x) == FALSE

\* usize::max_value() is skipped (line 74).
IsSentinel(x) == x = MaxValue

IncrementNoWrap(x) == x + 1

\* self.next_token += 1 (line 73) in usize arithmetic.
Increment(x) == (x + 1) % (MaxValue + 1)

OccupiedNever(m, t) == FALSE

\* RawEntryMut::Occupied (line 79) / Vacant (line 82).
Occupied(m, t) == t \in DOMAIN m

\* VacantEntry::insert (line 84).
Insert(m, t, e) == [x \in DOMAIN m \cup {t} |-> IF x = t THEN e ELSE m[x]]

\* HashMap::get (line 138): an Option.
Get(m, t) == IF t \in DOMAIN m THEN m[t] ELSE None

RemoveNothing(m, t) == m

\* Registry::remove: the map without the key.
Remove(m, t) == [x \in DOMAIN m \ {t} |-> m[x]]

WakesReadAlways(e, rd) ==
  <<(<<e, "read_waker">>)>>
  \o (IF Writable \in rd THEN <<(<<e, "write_waker">>)>> ELSE <<>>)

\* The wakers the loop body invokes for one found event (lines 143-149).
Wakes(e, rd) ==
  (IF Readable \in rd THEN <<(<<e, "read_waker">>)>> ELSE <<>>)
  \o (IF Writable \in rd THEN <<(<<e, "write_waker">>)>> ELSE <<>>)

CountedAlways(found) == TRUE

\* Whether an iteration whose lookup returned `found` reaches ret += 1
\* (line 152): the None arm continues past it.
Counted(found) == found # None

DeregAbsentResultTrue == Ok("deregister", TRUE)

\* Line 126: what deregister returns when remove found nothing.
DeregAbsentResult == Ok("deregister", FALSE)

PollFailureSwallowed == Ok("wait_all_events", 0)

\* Line 132: the ? operator returns the poll's error from wait_all_events.
PollFailure == Err("wait_all_events")

\* Sources nobody holds: not in the map, not known to the poll, not a local.
FreeEvents ==
  EventIds \ (Range(map) \cup {r[1] : r \in poll_regs}
              \cup {ev_info[p] : p \in Threads} \cup {removed[p] : p \in Threads})

\* Sequences of at most n distinct registrations held by the poll.
RECURSIVE RegSeqs(_, _)
RegSeqs(regs, n) ==
  IF n = 0 THEN {<<>>}
  ELSE {<<>>} \cup UNION {{<<r>> \o s : s \in RegSeqs(regs \ {r}, n - 1)} : r \in regs}

\* The batches a successful poll can report: up to MaxBatch events, each for a
\* distinct registration the poll holds and carrying that registration's token.
Batches == {[i \in 1..Len(s) |-> s[i][2]] : s \in RegSeqs(poll_regs, MaxBatch)}

----------------------------------------------------------------------------
Init ==
  /\ next_token = 0
  /\ map = <<>>
  /\ locked = NoThread
  /\ poisoned = FALSE
  /\ poll_regs = {}
  /\ pc = [p \in Threads |-> "idle"]
  /\ ev_info = [p \in Threads |-> None]
  /\ token = [p \in Threads |-> 0]
  /\ os_res = [p \in Threads |-> "none"]
  /\ removed = [p \in Threads |-> None]
  /\ timeout = [p \in Threads |-> "none"]
  /\ events = [p \in Threads |-> <<>>]
  /\ idx = [p \in Threads |-> 1]
  /\ readiness = [p \in Threads |-> {}]
  /\ ret = [p \in Threads |-> 0]
  /\ result = [p \in Threads |-> NoResult]
  /\ woken = <<>>
  /\ dereg_ok = {}
  /\ gone = {}
  /\ leaked = {}

----------------------------------------------------------------------------
MutexFreeAlways == TRUE

\* Mutex::lock (lines 114, 121, 135) returns only while no thread holds the
\* mutex.
MutexFree == locked = NoThread

----------------------------------------------------------------------------
\* Actor::register (lines 111-118) and Registry::register (lines 70-89).

\* Line 114: Actor::register is called with an EventInfo and takes the
\* mutex: self.registry.lock().unwrap() blocks while the mutex is held and
\* panics when it is poisoned.
RegLock(p) ==
  /\ pc[p] = "idle"
  /\ MutexFree
  /\ IF poisoned
       THEN /\ pc' = [pc EXCEPT ![p] = "panicked"]
            /\ UNCHANGED <<locked, ev_info>>
       ELSE /\ \E e \in FreeEvents : ev_info' = [ev_info EXCEPT ![p] = e]
            /\ pc' = [pc EXCEPT ![p] = "reg_loop"]
            /\ locked' = p
  /\ UNCHANGED <<registryVars, poisoned, poll_regs, token, os_res, removed,
                 pollLocals, result, woken, history>>

\* Lines 71-82, one iteration of the loop: let v = self.next_token;
\* self.next_token += 1; skip the sentinel, retry on an occupied entry, else
\* take v.  At usize::max_value() the addition overflows: a build without
\* overflow checks wraps to 0, a build with them panics (RegOverflow).
RegLoop(p) ==
  /\ pc[p] = "reg_loop"
  /\ next_token' = Increment(next_token)
  /\ IF IsSentinel(next_token) \/ Occupied(map, next_token)
       THEN UNCHANGED <<pc, token>>
       ELSE /\ pc' = [pc EXCEPT ![p] = "reg_os"]
            /\ token' = [token EXCEPT ![p] = next_token]
  /\ UNCHANGED <<map, lockVars, poll_regs, ev_info, os_res, removed,
                 pollLocals, result, woken, history>>

\* Line 73 in a build with overflow checks: the addition panics at
\* usize::max_value(); unwinding drops ev_info and the guard, which poisons
\* the mutex.
RegOverflow(p) ==
  /\ pc[p] = "reg_loop"
  /\ next_token = MaxValue
  /\ pc' = [pc EXCEPT ![p] = "panicked"]
  /\ locked' = NoThread
  /\ poisoned' = TRUE
  /\ ev_info' = [ev_info EXCEPT ![p] = None]
  /\ UNCHANGED <<registryVars, poll_regs, token, os_res, removed,
                 pollLocals, result, woken, history>>

RegOsUnlocked(p) ==
  /\ pc[p] = "reg_os"
  /\ \E ok \in BOOLEAN :
       /\ poll_regs' = IF ok THEN poll_regs \cup {<<ev_info[p], token[p]>>}
                             ELSE poll_regs
       /\ os_res' = [os_res EXCEPT ![p] = IF ok THEN "ok" ELSE "err"]
  /\ pc' = [pc EXCEPT ![p] = "reg_insert"]
  /\ locked' = NoThread
  /\ UNCHANGED <<registryVars, poisoned, ev_info, token, removed,
                 pollLocals, result, woken, history>>

\* Line 83: ev_info.register(poll, token); EventInfo::register (lines 32-43)
\* delegates to mio, which registers the source or fails.  The IOResult is
\* discarded by the caller.
RegOs(p) ==
  /\ pc[p] = "reg_os"
  /\ \E ok \in BOOLEAN :
       /\ poll_regs' = IF ok THEN poll_regs \cup {<<ev_info[p], token[p]>>}
                             ELSE poll_regs
       /\ os_res' = [os_res EXCEPT ![p] = IF ok THEN "ok" ELSE "err"]
  /\ pc' = [pc EXCEPT ![p] = "reg_insert"]
  /\ UNCHANGED <<registryVars, lockVars, ev_info, token, removed,
                 pollLocals, result, woken, history>>

\* Lines 84-85 and 117: v.insert(token, ev_info); return token; Ok(token).
RegInsert(p) ==
  /\ pc[p] = "reg_insert"
  /\ map' = Insert(map, token[p], ev_info[p])
  /\ ev_info' = [ev_info EXCEPT ![p] = None]
  /\ result' = [result EXCEPT ![p] = Ok("register", token[p])]
  /\ pc' = [pc EXCEPT ![p] = "reg_ret"]
  /\ gone' = gone \ {token[p]}
  /\ UNCHANGED <<next_token, lockVars, poll_regs, token, os_res, removed,
                 pollLocals, woken, dereg_ok, leaked>>

\* Line 116: the guard goes out of scope; the call returns.
RegReturn(p) ==
  /\ pc[p] = "reg_ret"
  /\ locked' = NoThread
  /\ pc' = [pc EXCEPT ![p] = "idle"]
  /\ token' = [token EXCEPT ![p] = 0]
  /\ os_res' = [os_res EXCEPT ![p] = "none"]
  /\ result' = [result EXCEPT ![p] = NoResult]
  /\ UNCHANGED <<registryVars, poisoned, poll_regs, ev_info, removed,
                 pollLocals, woken, history>>

----------------------------------------------------------------------------
\* Actor::deregister (lines 120-128).

\* Line 121: Actor::deregister is called with a token and takes the mutex.
DeregLock(p) ==
  /\ pc[p] = "idle"
  /\ MutexFree
  /\ IF poisoned
       THEN /\ pc' = [pc EXCEPT ![p] = "panicked"]
            /\ UNCHANGED <<locked, token>>
       ELSE /\ \E t \in Tokens : token' = [token EXCEPT ![p] = t]
            /\ pc' = [pc EXCEPT ![p] = "dereg_remove"]
            /\ locked' = p
  /\ UNCHANGED <<registryVars, poisoned, poll_regs, ev_info, os_res, removed,
                 pollLocals, result, woken, history>>

\* Lines 122 and 125-126: registry.remove(token) (Registry::remove, lines
\* 91-93); None returns Ok(false) without touching the poll.
DeregRemove(p) ==
  /\ pc[p] = "dereg_remove"
  /\ removed' = [removed EXCEPT ![p] = Get(map, token[p])]
  /\ map' = Remove(map, token[p])
  /\ IF Get(map, token[p]) = None
       THEN /\ result' = [result EXCEPT ![p] = DeregAbsentResult]
            /\ pc' = [pc EXCEPT ![p] = "dereg_ret"]
       ELSE /\ pc' = [pc EXCEPT ![p] = "dereg_os"]
            /\ UNCHANGED result
  /\ UNCHANGED <<next_token, lockVars, poll_regs, ev_info, token, os_res,
                 pollLocals, woken, history>>

\* Lines 123-124: v.deregister(&self.poll)?; return Ok(true).
\* EventInfo::deregister (lines 45-55) delegates to mio, which drops the
\* source's registration or fails.
DeregOs(p) ==
  /\ pc[p] = "dereg_os"
  /\ \E ok \in BOOLEAN :
       /\ poll_regs' = IF ok THEN {r \in poll_regs : r[1] # removed[p]}
                             ELSE poll_regs
       /\ os_res' = [os_res EXCEPT ![p] = IF ok THEN "ok" ELSE "err"]
       /\ result' = [result EXCEPT ![p] =
                       IF ok THEN Ok("deregister", TRUE) ELSE Err("deregister")]
       /\ dereg_ok' = IF ok THEN dereg_ok \cup {token[p]} ELSE dereg_ok
       /\ gone' = IF ok THEN gone \cup {token[p]} ELSE gone
       /\ leaked' = IF ok THEN leaked
                          ELSE leaked \cup ({<<removed[p], token[p]>>} \cap poll_regs)
  /\ pc' = [pc EXCEPT ![p] = "dereg_ret"]
  /\ UNCHANGED <<registryVars, lockVars, ev_info, token, removed,
                 pollLocals, woken>>

\* The function returns: v and the guard go out of scope.
DeregReturn(p) ==
  /\ pc[p] = "dereg_ret"
  /\ locked' = NoThread
  /\ removed' = [removed EXCEPT ![p] = None]
  /\ pc' = [pc EXCEPT ![p] = "idle"]
  /\ token' = [token EXCEPT ![p] = 0]
  /\ os_res' = [os_res EXCEPT ![p] = "none"]
  /\ result' = [result EXCEPT ![p] = NoResult]
  /\ UNCHANGED <<registryVars, poisoned, poll_regs, ev_info,
                 pollLocals, woken, history>>

----------------------------------------------------------------------------
\* Actor::wait_all_events (lines 130-156).

CallWaitAllEventsLocked(p) ==
  /\ pc[p] = "idle"
  /\ locked = NoThread
  /\ locked' = p
  /\ \E d \in Timeouts : timeout' = [timeout EXCEPT ![p] = d]
  /\ pc' = [pc EXCEPT ![p] = "poll_wait"]
  /\ UNCHANGED <<registryVars, poisoned, poll_regs, ev_info, token, os_res,
                 removed, events, idx, readiness, ret, result, woken, history>>

\* Line 130: the call, with its timeout.
CallWaitAllEvents(p) ==
  /\ pc[p] = "idle"
  /\ \E d \in Timeouts : timeout' = [timeout EXCEPT ![p] = d]
  /\ pc' = [pc EXCEPT ![p] = "poll_wait"]
  /\ UNCHANGED <<registryVars, lockVars, poll_regs, ev_info, token, os_res,
                 removed, events, idx, readiness, ret, result, woken, history>>

PollOsBlocking(p) ==
  /\ pc[p] = "poll_wait"
  /\ \/ /\ os_res' = [os_res EXCEPT ![p] = "err"]
        /\ result' = [result EXCEPT ![p] = PollFailure]
        /\ pc' = [pc EXCEPT ![p] = "poll_ret"]
        /\ UNCHANGED events
     \/ /\ \E b \in Batches :
             /\ b # <<>>
             /\ events' = [events EXCEPT ![p] = b]
        /\ os_res' = [os_res EXCEPT ![p] = "ok"]
        /\ pc' = [pc EXCEPT ![p] = "poll_lock"]
        /\ UNCHANGED result
  /\ timeout' = [timeout EXCEPT ![p] = "none"]
  /\ UNCHANGED <<registryVars, lockVars, poll_regs, ev_info, token, removed,
                 idx, readiness, ret, woken, history>>

\* Lines 131-132: self.poll.poll(&mut events, timeout)?.  The call fails, or
\* it returns a batch; without a timeout it returns only once an event is ready.
PollOs(p) ==
  /\ pc[p] = "poll_wait"
  /\ \/ /\ os_res' = [os_res EXCEPT ![p] = "err"]
        /\ result' = [result EXCEPT ![p] = PollFailure]
        /\ pc' = [pc EXCEPT ![p] = "poll_ret"]
        /\ UNCHANGED events
     \/ /\ \E b \in Batches :
             /\ timeout[p] = "none" => b # <<>>
             /\ events' = [events EXCEPT ![p] = b]
        /\ os_res' = [os_res EXCEPT ![p] = "ok"]
        /\ pc' = [pc EXCEPT ![p] = "poll_lock"]
        /\ UNCHANGED result
  /\ timeout' = [timeout EXCEPT ![p] = "none"]
  /\ UNCHANGED <<registryVars, lockVars, poll_regs, ev_info, token, removed,
                 idx, readiness, ret, woken, history>>

PollLockSkipped(p) ==
  /\ pc[p] = "poll_lock"
  /\ pc' = [pc EXCEPT ![p] = "poll_loop"]
  /\ UNCHANGED <<registryVars, lockVars, poll_regs, ev_info, token, os_res,
                 removed, pollLocals, result, woken, history>>

\* Line 135: self.registry.lock().unwrap().
PollLock(p) ==
  /\ pc[p] = "poll_lock"
  /\ MutexFree
  /\ IF poisoned
       THEN /\ pc' = [pc EXCEPT ![p] = "panicked"]
            /\ events' = [events EXCEPT ![p] = <<>>]
            /\ os_res' = [os_res EXCEPT ![p] = "none"]
            /\ UNCHANGED locked
       ELSE /\ pc' = [pc EXCEPT ![p] = "poll_loop"]
            /\ locked' = p
            /\ UNCHANGED <<events, os_res>>
  /\ UNCHANGED <<registryVars, poisoned, poll_regs, ev_info, token,
                 removed, timeout, idx, readiness, ret, result, woken, history>>

\* Lines 136-153: one iteration of the loop over the batch; the event
\* carries any readiness.
PollLoop(p) ==
  /\ pc[p] = "poll_loop"
  /\ idx[p] <= Len(events[p])
  /\ LET found == Get(map, events[p][idx[p]])
     IN \E rd \in Ready :
          /\ readiness' = [readiness EXCEPT ![p] = rd]
          /\ woken' = IF found = None THEN <<>> ELSE Wakes(found, rd)
          /\ ret' = [ret EXCEPT ![p] = IF Counted(found) THEN @ + 1 ELSE @]
  /\ idx' = [idx EXCEPT ![p] = @ + 1]
  /\ UNCHANGED <<registryVars, lockVars, poll_regs, pc, ev_info, token,
                 os_res, removed, timeout, events, result, history>>

\* Line 155: the loop is over; Ok(ret).
PollDone(p) ==
  /\ pc[p] = "poll_loop"
  /\ idx[p] > Len(events[p])
  /\ result' = [result EXCEPT ![p] = Ok("wait_all_events", ret[p])]
  /\ pc' = [pc EXCEPT ![p] = "poll_ret"]
  /\ readiness' = [readiness EXCEPT ![p] = {}]
  /\ woken' = <<>>
  /\ UNCHANGED <<registryVars, lockVars, poll_regs, ev_info, token, os_res,
                 removed, timeout, events, idx, ret, history>>

\* The function returns; the guard, if taken, goes out of scope (line 154).
PollReturn(p) ==
  /\ pc[p] = "poll_ret"
  /\ locked' = IF locked = p THEN NoThread ELSE locked
  /\ pc' = [pc EXCEPT ![p] = "idle"]
  /\ events' = [events EXCEPT ![p] = <<>>]
  /\ idx' = [idx EXCEPT ![p] = 1]
  /\ ret' = [ret EXCEPT ![p] = 0]
  /\ os_res' = [os_res EXCEPT ![p] = "none"]
  /\ result' = [result EXCEPT ![p] = NoResult]
  /\ UNCHANGED <<registryVars, poisoned, poll_regs, ev_info, token,
                 removed, timeout, readiness, woken, history>>

----------------------------------------------------------------------------
Next ==
  \E p \in Threads :
    \/ RegLock(p)
    \/ RegLoop(p)
    \/ RegOverflow(p)
    \/ RegOs(p)
    \/ RegInsert(p)
    \/ RegReturn(p)
    \/ DeregLock(p)
    \/ DeregRemove(p)
    \/ DeregOs(p)
    \/ DeregReturn(p)
    \/ CallWaitAllEvents(p)
    \/ PollOs(p)
    \/ PollLock(p)
    \/ PollLoop(p)
    \/ PollDone(p)
    \/ PollReturn(p)

Spec == Init /\ [][Next]_vars

----------------------------------------------------------------------------
\* Notions the properties below are stated with.

\* Threads whose register has taken a token but not yet returned.
HasToken(p) == pc[p] \in {"reg_os", "reg_insert"}

\* The registrations the poll holds under token t.
RegsUnder(t) == {r \in poll_regs : r[2] = t}

\* The latest iteration of p's dispatch loop has just handled events[p][idx[p] - 1].
Handled(p) == pc[p] = "poll_loop" /\ idx[p] > 1
LastToken(p) == events[p][idx[p] - 1]

\* How often waker w was invoked by the latest iteration.
Invocations(w) == Cardinality({i \in DOMAIN woken : woken[i] = w})

\* The events of p's batch whose token is a key of the map.
FoundEvents(p) == {i \in DOMAIN events[p] : events[p][i] \in DOMAIN map}

----------------------------------------------------------------------------
\* C1: the token register has chosen and is about to insert and return is not
\* the key of any entry live in the map at that moment, whatever the counter
\* and the map (also after the counter has wrapped around); so live
\* registrations never share a token.
C1_FreshToken ==
  \A p \in Threads : HasToken(p) => token[p] \notin DOMAIN map

\* C1 witness: a register after wraparound reissues a value that had been
\* deregistered, having passed over a smaller key that is still live.
C1_Witness ==
  \E p \in Threads :
    /\ pc[p] = "reg_insert"
    /\ token[p] \in gone
    /\ \E t \in DOMAIN map : t < token[p]

\* C2 as stated: once deregister(t) has returned true, an event for t handled
\* by any later dispatch loop wakes nothing and is not counted, whatever
\* registrations were made since.
C2_Original ==
  \A p \in Threads :
    /\ (Handled(p) /\ LastToken(p) \in dereg_ok) => woken = <<>>
    /\ (pc[p] = "poll_loop" /\ \A i \in 1..(idx[p] - 1) : events[p][i] \in dereg_ok)
         => ret[p] = 0

\* C2 amended: once deregister(t) has returned true and as long as register
\* has not issued the value t again, an event for t handled by a dispatch
\* loop wakes nothing and is not counted, and the call returns Ok (Ok(0) for
\* a batch of such events only).
C2_NoDispatchToRemoved ==
  \A p \in Threads :
    /\ (Handled(p) /\ LastToken(p) \in gone) => woken = <<>>
    /\ (pc[p] = "poll_loop" /\ \A i \in 1..(idx[p] - 1) : events[p][i] \in gone)
         => ret[p] = 0
    /\ (pc[p] = "poll_ret" /\ os_res[p] = "ok"
          /\ \A i \in DOMAIN events[p] : events[p][i] \in gone)
         => result[p] = Ok("wait_all_events", 0)

\* C2 witness: a dispatch loop has handled an event for a token whose
\* deregister returned true.
C2_Witness ==
  \E p \in Threads : Handled(p) /\ LastToken(p) \in gone

\* C3: for an event whose token is in the map, the read waker of that entry
\* is invoked once if the event is readable and not otherwise, the write
\* waker once if it is writable and not otherwise, and no other waker is.
C3_WakesByDirection ==
  \A p \in Threads :
    (Handled(p) /\ LastToken(p) \in DOMAIN map) =>
      LET e == map[LastToken(p)]
      IN /\ Invocations(<<e, "read_waker">>) =
              (IF Readable \in readiness[p] THEN 1 ELSE 0)
         /\ Invocations(<<e, "write_waker">>) =
              (IF Writable \in readiness[p] THEN 1 ELSE 0)
         /\ \A i \in DOMAIN woken :
              woken[i] \in {<<e, "read_waker">>, <<e, "write_waker">>}

\* C3 witness: an event both readable and writable was dispatched while
\* another registration is live.
C3_Witness ==
  \E p \in Threads :
    /\ Handled(p)
    /\ LastToken(p) \in DOMAIN map
    /\ readiness[p] = {Readable, Writable}
    /\ Len(woken) = 2
    /\ Cardinality(DOMAIN map) > 1

C5_RegisterFailurePropagates ==
  \A p \in Threads :
    (pc[p] = "reg_ret" /\ os_res[p] = "err") =>
      /\ ~result[p].ok
      /\ token[p] \notin DOMAIN map

\* C6: every key of the map has exactly one registration with the poll.
C6_KeysHaveOneOsRegistration ==
  \A t \in DOMAIN map : Cardinality(RegsUnder(t)) = 1

\* C7: when the OS-level deregister call failed, deregister returns the
\* failure and the map and the poll agree on the token: it is not so that the
\* entry is gone while a registration under the token is live, nor the reverse.
C7_DeregisterFailureNoPartialState ==
  \A p \in Threads :
    (pc[p] = "dereg_ret" /\ os_res[p] = "err") =>
      /\ ~result[p].ok
      /\ (token[p] \in DOMAIN map) <=> (RegsUnder(token[p]) # {})

\* C8: a value is taken by register only when it is neither a key of the map
\* nor still registered with the poll.
C8_ReuseAfterFullRemoval ==
  \A p \in Threads :
    pc[p] = "reg_os" =>
      /\ token[p] \notin DOMAIN map
      /\ RegsUnder(token[p]) = {}

\* C9 as stated: deregister returns true exactly when the token was a key
\* (remove returned an entry), and false otherwise.
C9_Original ==
  \A p \in Threads :
    pc[p] = "dereg_ret" => result[p] = Ok("deregister", removed[p] # None)

\* C9 amended: deregister returns false exactly when the token was not a key;
\* then it makes no OS-level call and changes neither the map nor the counter
\* nor the poll.  When the token was a key it returns true if the OS-level
\* deregister succeeded and the failure if it failed.  Either way the token is
\* not a key when deregister returns, so deregistering it again returns false.
C9_DeregisterResult ==
  [][\A p \in Threads :
       /\ (pc[p] = "dereg_remove" /\ pc'[p] # pc[p]) =>
            IF token[p] \in DOMAIN map
              THEN /\ pc'[p] = "dereg_os"
                   /\ token[p] \notin DOMAIN map'
              ELSE /\ pc'[p] = "dereg_ret"
                   /\ result'[p] = Ok("deregister", FALSE)
                   /\ os_res'[p] = "none"
                   /\ UNCHANGED <<map, next_token, poll_regs>>
       /\ (pc[p] = "dereg_os" /\ pc'[p] # pc[p]) =>
            /\ pc'[p] = "dereg_ret"
            /\ token[p] \notin DOMAIN map'
            /\ result'[p] = IF os_res'[p] = "ok" THEN Ok("deregister", TRUE)
                                               ELSE Err("deregister")
       /\ (pc[p] = "dereg_ret" /\ pc'[p] # pc[p]) =>
            /\ token[p] \notin DOMAIN map'
            /\ UNCHANGED <<map, next_token>>]_vars

\* C9 witness: deregister of a token that an earlier deregister removed
\* returns false.
C9_Witness ==
  \E p \in Threads :
    /\ pc[p] = "dereg_ret"
    /\ token[p] \in gone
    /\ result[p] = Ok("deregister", FALSE)

\* C10: register never takes or returns usize::max_value(), and it is never a
\* key of the map.
C10_SentinelNeverIssued ==
  /\ MaxValue \notin DOMAIN map
  /\ \A p \in Threads :
       /\ HasToken(p) => token[p] # MaxValue
       /\ pc[p] = "reg_ret" => result[p] # Ok("register", MaxValue)

\* C10 witness: register returns a value issued before, so its loop has met
\* the counter at usize::max_value() and gone past it.
C10_Witness ==
  \E p \in Threads :
    /\ pc[p] = "reg_ret"
    /\ result[p].val \in dereg_ok

\* C11: no register, deregister or wait_all_events call ends in a panic; in
\* particular the increment of the counter at usize::max_value() does not.
C11_NoPanic ==
  \A p \in Threads : pc[p] # "panicked"

\* C12: when the OS poll call fails, wait_all_events goes straight to its
\* return with that failure, never holding the registry mutex, and neither
\* the failing step nor the return changes the map, the counter, the OS
\* registrations or the wakers woken.
C12_PollFailureAborts ==
  [][\A p \in Threads :
       /\ (pc[p] = "poll_wait" /\ os_res'[p] = "err") => pc'[p] = "poll_ret"
       /\ (pc'[p] = "poll_ret" /\ os_res'[p] = "err") =>
            /\ result'[p] = Err("wait_all_events")
            /\ locked' # p
       /\ (\/ pc[p] = "poll_wait" /\ pc'[p] = "poll_ret"
           \/ pc[p] = "poll_ret" /\ os_res[p] = "err" /\ pc'[p] = "idle") =>
            UNCHANGED <<map, next_token, woken, locked, poll_regs>>]_vars

\* C12 witness: the poll fails while sources are registered and another
\* thread holds the mutex.
C12_Witness ==
  \E p \in Threads :
    /\ pc[p] = "poll_ret"
    /\ os_res[p] = "err"
    /\ map # <<>>
    /\ locked # NoThread

\* C13: a thread inside the OS poll call, or between it and line 135, does
\* not hold the registry mutex; wait_all_events holds it only from the
\* dispatch loop to its return.  So while a thread is in the OS poll call
\* and nobody else is in a call, another thread's deregister can take the
\* mutex.
C13_NoLockAcrossPoll ==
  \A p \in Threads :
    /\ pc[p] \in {"poll_wait", "poll_lock"} => locked # p
    /\ (pc[p] = "poll_wait" /\ \A q \in Threads \ {p} : pc[q] = "idle") =>
         \A q \in Threads \ {p} : ENABLED DeregLock(q)

\* C13 witness: while one thread is blocked in the OS poll call without a
\* timeout, another thread has taken the mutex and completed a register.
C13_Witness ==
  \E p, q \in Threads :
    /\ pc[p] = "poll_wait"
    /\ timeout[p] = "none"
    /\ pc[q] = "reg_ret"
    /\ locked = q

\* The thread is between taking the registry mutex and dropping its guard:
\* in register's allocation and insert, in deregister's remove and OS-level
\* deregister, or in the dispatch loop of wait_all_events.
InCritical(p) ==
  \/ pc[p] \in {"reg_loop", "reg_os", "reg_insert", "reg_ret"}
  \/ pc[p] \in {"dereg_remove", "dereg_os", "dereg_ret"}
  \/ pc[p] = "poll_loop"
  \/ pc[p] = "poll_ret" /\ os_res[p] = "ok"

\* C14: at most one thread at a time is inside a registry critical section,
\* and the thread inside is the holder of the mutex.
C14_MutualExclusion ==
  \A p \in Threads :
    InCritical(p) =>
      /\ locked = p
      /\ \A q \in Threads \ {p} : ~InCritical(q)

\* C14 witness: a thread with a batch to dispatch waits at the mutex while
\* another thread is inside deregister's critical section.
C14_Witness ==
  \E p, q \in Threads :
    /\ pc[p] = "poll_lock"
    /\ events[p] # <<>>
    /\ pc[q] = "dereg_os"

\* The thread is inside a register or a deregister call.
InRegOrDereg(p) ==
  pc[p] \in {"reg_loop", "reg_os", "reg_insert", "reg_ret",
             "dereg_remove", "dereg_os", "dereg_ret"}

\* C15: every register and deregister call returns: each step of such a
\* call, the taking of the mutex at its start included, leads to a further
\* step of the call or to its return, never to a state the call cannot
\* leave.
C15_RegDeregReturn ==
  [][\A p \in Threads :
       /\ (InRegOrDereg(p) /\ pc'[p] # pc[p]) =>
            (InRegOrDereg(p)' \/ pc'[p] = "idle")
       /\ (pc[p] = "idle" /\ pc'[p] # pc[p]) =>
            (InRegOrDereg(p)' \/ pc'[p] = "poll_wait")]_vars

\* The OS poll call of thread p returns with no event.
PollOsEmpty(p) ==
  /\ PollOs(p)
  /\ pc'[p] = "poll_lock"
  /\ events'[p] = <<>>

C17_AllocationFindsFreeToken ==
  [][\A p \in Threads :
       (/\ pc[p] = "reg_loop"
        /\ \E t \in Tokens \ {MaxValue} : t \notin DOMAIN map
        /\ <<pc[p], next_token>> # <<pc'[p], next_token'>>) =>
         \/ pc'[p] = "reg_loop"
         \/ /\ pc'[p] = "reg_os"
            /\ token'[p] \notin DOMAIN map'
            /\ token'[p] # MaxValue]_vars

\* C18: register's loop examines the counter's value, passes it over only if
\* it is usize::max_value() or a key of the map, takes it otherwise, and
\* advances the counter by one each time, so that register returns the first
\* free value from the counter upward and leaves the counter one past it.
\* Nothing but register's loop changes the counter, and the counter
\* decreases only by wrapping from usize::max_value() to 0.
C18_FirstFreeFromCounter ==
  [][/\ \A p \in Threads :
          /\ (pc[p] = "reg_loop" /\ pc'[p] = "reg_os") =>
               /\ token'[p] = next_token
               /\ next_token # MaxValue
               /\ next_token \notin DOMAIN map
               /\ next_token' = next_token + 1
          /\ (pc[p] = "reg_loop" /\ pc'[p] = "reg_loop"
                /\ next_token' # next_token) =>
               /\ next_token = MaxValue \/ next_token \in DOMAIN map
               /\ next_token' = (next_token + 1) % (MaxValue + 1)
          /\ pc'[p] \in {"reg_os", "reg_insert"} => next_token' = token'[p] + 1
          /\ pc'[p] = "reg_ret" =>
               result'[p] = Ok("register", next_token' - 1)
     /\ next_token' # next_token =>
          /\ locked # NoThread
          /\ pc[locked] = "reg_loop"
     /\ next_token' < next_token =>
          /\ next_token = MaxValue
          /\ next_token' = 0]_vars

\* C18 witness: register takes a value while a smaller value, freed by
\* deregister, is not a key of the map.
C18_Witness ==
  \E p \in Threads :
    /\ pc[p] = "reg_os"
    /\ \E t \in gone : t < token[p] /\ t \notin DOMAIN map

\* The registrations whose wakers the latest iteration of a dispatch loop
\* has woken.
WokenEvents == {woken[i][1] : i \in DOMAIN woken}

\* C19: neither waker of a registration that deregister has removed from the
\* map is woken: from the removal on, through deregister's return and after
\* the registration is dropped, the wakers woken belong to registrations in
\* the map.
C19_NoWakeAfterDeregister ==
  /\ WokenEvents \subseteq Range(map)
  /\ WokenEvents \cap FreeEvents = {}
  /\ \A q \in Threads :
       removed[q] # None =>
         /\ removed[q] \notin Range(map)
         /\ removed[q] \notin WokenEvents

\* C19 witness: deregister(t) is about to return true while another thread's
\* poll has returned an event for t and waits for the mutex to dispatch it.
C19_Witness ==
  \E p, q \in Threads :
    /\ pc[q] = "dereg_ret"
    /\ result[q] = Ok("deregister", TRUE)
    /\ pc[p] = "poll_lock"
    /\ \E i \in DOMAIN events[p] : events[p][i] = token[q]

\* C20: an event the dispatch loop passes over as unknown has no OS-level
\* registration under its token other than those a deregister took out of
\* the map; an event whose token is a key is counted and wakes the wakers
\* its readiness names.  No dispatch loop runs between register's OS-level
\* register and its insert, so an event delivered in between is looked up
\* after the insert.
C20_NoLostWakeup ==
  \A p \in Threads :
    /\ (Handled(p) /\ LastToken(p) \notin DOMAIN map) =>
         RegsUnder(LastToken(p)) \subseteq leaked
    /\ (Handled(p) /\ LastToken(p) \in DOMAIN map) =>
         /\ ret[p] >= 1
         /\ readiness[p] # {} => map[LastToken(p)] \in WokenEvents
    /\ pc[p] \in {"reg_os", "reg_insert"} =>
         \A q \in Threads \ {p} : pc[q] # "poll_loop"

\* C20 witness: the OS has delivered an event for a token between register's
\* OS-level register and its insert; the dispatching thread is waiting for
\* the mutex, and no deregister has removed anything yet.
C20_Witness ==
  \E p, q \in Threads :
    /\ pc[q] = "reg_insert"
    /\ os_res[q] = "ok"
    /\ pc[p] = "poll_lock"
    /\ \E i \in DOMAIN events[p] : events[p][i] = token[q]
    /\ leaked = {}
    /\ gone = {}

====
